---- MODULE Spec2Model ----
(***************************************************************************)
(* Binomial (Cox-Ross-Rubinstein) option pricing: the two pricing          *)
(* functions of binomial_tree_pricing.ipynb, binomial_tree_slow (scalar,   *)
(* in-place backward sweep) and binomial_tree_fast (whole-layer sweep),    *)
(* called one after the other on the same arguments, as the notebook's     *)
(* driver loop does.                                                       *)
(*                                                                         *)
(* Numbers are exact: a float is a pair <<n, d>>, the fraction n/d in      *)
(* lowest terms with d > 0.  The three non-finite floats are the pairs     *)
(* with d = 0: <<1,0>> is +inf, <<-1,0>> is -inf and <<0,0>> is nan, and   *)
(* the operations follow IEEE-754 on them (numpy scalars divide by zero    *)
(* with a warning, not an exception).  Rounding is not modelled.           *)
(***************************************************************************)
EXTENDS Integers, Sequences, FiniteSets, TLC

\* Largest step count N the driver passes.
MaxN == 3

----------------------------------------------------------------------------
\* Exact float arithmetic

Abs(n) == IF n < 0 THEN -n ELSE n

Sign(n) == IF n > 0 THEN 1 ELSE IF n < 0 THEN -1 ELSE 0

RECURSIVE GCD(_, _)
GCD(a, b) == IF b = 0 THEN a ELSE GCD(b, a % b)

\* n/d in lowest terms with a positive denominator; n/0 is inf, -inf or nan.
Norm(n, d) ==
    IF d = 0 THEN <<Sign(n), 0>>
    ELSE LET g == GCD(Abs(n), Abs(d))
             s == Sign(d)
         IN  <<(s * n) \div g, (s * d) \div g>>

Num(a) == a[1]
Den(a) == a[2]

Zero == <<0, 1>>
One == <<1, 1>>
NaN == <<0, 0>>

Int2F(n) == <<n, 1>>

IsNaN(a) == Den(a) = 0 /\ Num(a) = 0
IsInf(a) == Den(a) = 0 /\ Num(a) # 0
IsFinite(a) == Den(a) > 0

Neg(a) == <<-Num(a), Den(a)>>

\* a + b; finite fractions are added over their least common denominator.
Add(a, b) ==
    IF IsNaN(a) \/ IsNaN(b) THEN NaN
    ELSE IF IsInf(a) THEN (IF IsInf(b) /\ Num(b) # Num(a) THEN NaN ELSE a)
    ELSE IF IsInf(b) THEN b
    ELSE LET g == GCD(Den(a), Den(b))
         IN  Norm(Num(a) * (Den(b) \div g) + Num(b) * (Den(a) \div g),
                  (Den(a) \div g) * Den(b))

Sub(a, b) == Add(a, Neg(b))

\* a * b; common factors are cancelled before multiplying.  inf * 0 is nan.
Mul(a, b) ==
    IF ~IsFinite(a) \/ ~IsFinite(b) \/ Num(a) = 0 \/ Num(b) = 0
    THEN Norm(Num(a) * Num(b), Den(a) * Den(b))
    ELSE LET g1 == GCD(Abs(Num(a)), Den(b))
             g2 == GCD(Abs(Num(b)), Den(a))
         IN  <<(Num(a) \div g1) * (Num(b) \div g2),
               (Den(a) \div g2) * (Den(b) \div g1)>>

\* 1/a for a numpy float: 1/0 is +inf, 1/inf is 0.
Recip(a) == Norm(Sign(Num(a)) * Den(a), Abs(Num(a)))

\* a / b for numpy floats: no exception, x/0 is inf or nan.
Div(a, b) == IF IsInf(a) /\ IsInf(b) THEN NaN ELSE Mul(a, Recip(b))

\* a < b; every comparison with nan is false.
Less(a, b) ==
    IF IsNaN(a) \/ IsNaN(b) THEN FALSE
    ELSE IF IsInf(a) THEN Num(a) < 0 /\ b # a
    ELSE IF IsInf(b) THEN Num(b) > 0
    ELSE LET g == GCD(Den(a), Den(b))
         IN  Num(a) * (Den(b) \div g) < Num(b) * (Den(a) \div g)

\* a <= b
Leq(a, b) == (a = b /\ ~IsNaN(a)) \/ Less(a, b)

\* a ** n for an integer n >= 0 (x ** 0 is 1, also for x = 0).
RECURSIVE Pow(_, _)
Pow(a, n) == IF n <= 0 THEN One ELSE Mul(Pow(a, n - 1), a)

\* np.exp over exact fractions: the (1,1) Pade approximant (2+x)/(2-x) of
\* e^x.  Like e^x it is 1 at 0, positive and increasing for |x| < 2, and
\* Exp(-x) = 1/Exp(x).
Exp(x) == Div(Add(Int2F(2), x), Sub(Int2F(2), x))

----------------------------------------------------------------------------
\* Arguments the driver passes (cell "Initialise parameters" and the calls)

S0Values == {Int2F(-1), Int2F(2), Int2F(3)}
KValues == {Int2F(0), Int2F(1), Int2F(3)}
TValues == {0, 1}
rValues == {Int2F(-1), Int2F(0), Int2F(1)}
NValues == (-2 .. 0) \cup (1 .. MaxN)
uValues == {Int2F(1), Int2F(2), Int2F(3)}
dValues == {Int2F(0), <<1, 2>>, Int2F(1)}
optValues == {"C", "P"}

VARIABLES S0, K, T, r, N, u, d, opt, pc, slow, fast, slowOut, fastOut

args == <<S0, K, T, r, N, u, d, opt>>
vars == <<S0, K, T, r, N, u, d, opt, pc, slow, fast, slowOut, fastOut>>

\* The outcome of a call: still running, a returned float, or an exception.
Running == [kind |-> "running", val |-> Zero, err |-> ""]
Returned(v) == [kind |-> "returned", val |-> v, err |-> ""]
Raised(e) == [kind |-> "raised", val |-> Zero, err |-> e]

----------------------------------------------------------------------------
\* Helpers shared by the two functions

\* np.zeros(n)
Zeros(n) == [m \in 1 .. n |-> Zero]

\* LayerLen allocating one node too few (np.zeros(N)).
LayerLenShort(n) == n

\* Length of a layer at time step n: an n-step tree has n+1 nodes.
LayerLen(n) == n + 1

\* The Python index j is in range for the array A (no negative j occurs).
InRange(A, j) == 0 <= j /\ j < Len(A)

\* A[j], Python's 0-based indexing.
At(A, j) == A[j + 1]

\* A with A[j] = v.
Put(A, j, v) == [A EXCEPT ![j + 1] = v]

\* A[a:b], clamped to the array as Python slices are (0 <= a).
Slice(A, a, b) ==
    LET hi == IF b < Len(A) THEN b ELSE Len(A)
    IN  [m \in 1 .. (IF hi > a THEN hi - a ELSE 0) |-> A[a + m]]

\* q = (np.exp(r*dt)-d) / (u-d)
RiskNeutral(rr, dt, uu, dd) == Div(Sub(Exp(Mul(rr, dt)), dd), Sub(uu, dd))

\* disc = np.exp(-r*dt)
Discount(rr, dt) == Exp(Mul(Neg(rr), dt))

\* Payoff without its floor at zero (S[j] - K).
PayoffNoFloor(price, KK) == Sub(price, KK)

\* max(price - K, 0), the call payoff; max returns its first argument
\* unless the second is greater, so nan stays nan (as in np.maximum).
Payoff(price, KK) ==
    LET x == Sub(price, KK) IN IF Less(x, Zero) THEN Zero ELSE x

\* Backward with the two weights exchanged (q*down + (1-q)*up).
BackwardSwapped(disc, q, up, down) ==
    Mul(disc, Add(Mul(q, down), Mul(Sub(One, q), up)))

\* disc * (q*up + (1-q)*down)
Backward(disc, q, up, down) ==
    Mul(disc, Add(Mul(q, up), Mul(Sub(One, q), down)))

----------------------------------------------------------------------------
\* binomial_tree_slow

SlowLocals == [dt |-> Zero, q |-> Zero, disc |-> Zero, S |-> <<>>, C |-> <<>>,
               i |-> 0, j |-> 0, old |-> <<>>]

\* SlowPriceStep multiplying by d instead of dividing (S[j-1]*u*d).
SlowPriceStepTimes(prev, uu, dd) == Mul(Mul(prev, uu), dd)

\* S[j] = S[j-1]*u/d
SlowPriceStep(prev, uu, dd) == Div(Mul(prev, uu), dd)

\* SlowWriteIndex off by one (C[j+1] = ...): the next step reads the write.
SlowWriteIndexNext(j) == j + 1

\* The index the inner loop writes: C[j] = ...
SlowWriteIndex(j) == j

\* The slow call ends with an exception; the driver goes on to the fast call.
SlowRaise(e) ==
    /\ slowOut' = Raised(e)
    /\ pc' = "fast_const"
    /\ UNCHANGED <<slow, fast, fastOut>>

\* dt = T/N; q = ...; disc = ...      (T/N of Python numbers raises for N = 0)
SlowConstants ==
    /\ pc = "slow_const"
    /\ IF N = 0
       THEN SlowRaise("ZeroDivisionError")
       ELSE LET dt == Norm(T, N)
            IN  /\ slow' = [slow EXCEPT !.dt = dt,
                                        !.q = RiskNeutral(r, dt, u, d),
                                        !.disc = Discount(r, dt)]
                /\ pc' = "slow_S_init"
                /\ UNCHANGED <<slowOut, fast, fastOut>>
    /\ UNCHANGED args

\* S = np.zeros(N+1); S[0] = S0*d**N
SlowInitS ==
    /\ pc = "slow_S_init"
    /\ IF LayerLen(N) < 0
       THEN SlowRaise("ValueError")
       ELSE IF N < 0 /\ d = Zero
       THEN SlowRaise("ZeroDivisionError")
       ELSE IF ~InRange(Zeros(LayerLen(N)), 0)
       THEN SlowRaise("IndexError")
       ELSE /\ slow' = [slow EXCEPT !.S = Put(Zeros(LayerLen(N)), 0, Mul(S0, Pow(d, N))),
                                    !.j = 1]
            /\ pc' = "slow_S_loop"
            /\ UNCHANGED <<slowOut, fast, fastOut>>
    /\ UNCHANGED args

\* for j in range(1,N+1): S[j] = S[j-1]*u/d
SlowPriceLoop ==
    /\ pc = "slow_S_loop"
    /\ IF slow.j < N + 1
       THEN IF ~InRange(slow.S, slow.j)
            THEN SlowRaise("IndexError")
            ELSE /\ slow' = [slow EXCEPT
                       !.S = Put(slow.S, slow.j,
                                 SlowPriceStep(At(slow.S, slow.j - 1), u, d)),
                       !.j = slow.j + 1]
                 /\ UNCHANGED <<pc, slowOut, fast, fastOut>>
       ELSE /\ slow' = [slow EXCEPT !.C = Zeros(LayerLen(N)), !.j = 0]
            /\ pc' = "slow_C_loop"
            /\ UNCHANGED <<slowOut, fast, fastOut>>
    /\ UNCHANGED args

\* C = np.zeros(N+1); for j in range(0, N+1): C[j] = max(S[j] - K, 0)
SlowPayoffLoop ==
    /\ pc = "slow_C_loop"
    /\ IF slow.j < N + 1
       THEN IF ~InRange(slow.S, slow.j) \/ ~InRange(slow.C, slow.j)
            THEN SlowRaise("IndexError")
            ELSE /\ slow' = [slow EXCEPT
                       !.C = Put(slow.C, slow.j, Payoff(At(slow.S, slow.j), K)),
                       !.j = slow.j + 1]
                 /\ UNCHANGED <<pc, slowOut, fast, fastOut>>
       ELSE /\ slow' = [slow EXCEPT !.i = N]
            /\ pc' = "slow_round"
            /\ UNCHANGED <<slowOut, fast, fastOut>>
    /\ UNCHANGED args

\* for i in np.arange(N,0,-1): the head of a round, or the end of the loop.
\* old records the layer as it stands when round i begins.
SlowRound ==
    /\ pc = "slow_round"
    /\ IF slow.i > 0
       THEN /\ slow' = [slow EXCEPT !.j = 0, !.old = slow.C]
            /\ pc' = "slow_inner"
       ELSE /\ pc' = "slow_return"
            /\ UNCHANGED slow
    /\ UNCHANGED <<args, slowOut, fast, fastOut>>

\* for j in range(0, i): C[j] = disc * (q*C[j+1] + (1-q)*C[j])
SlowInner ==
    /\ pc = "slow_inner"
    /\ IF slow.j < slow.i
       THEN IF \/ ~InRange(slow.C, slow.j + 1)
               \/ ~InRange(slow.C, slow.j)
               \/ ~InRange(slow.C, SlowWriteIndex(slow.j))
            THEN SlowRaise("IndexError")
            ELSE /\ slow' = [slow EXCEPT
                       !.C = Put(slow.C, SlowWriteIndex(slow.j),
                                 Backward(slow.disc, slow.q,
                                          At(slow.C, slow.j + 1), At(slow.C, slow.j))),
                       !.j = slow.j + 1]
                 /\ UNCHANGED <<pc, slowOut, fast, fastOut>>
       ELSE /\ slow' = [slow EXCEPT !.i = slow.i - 1]
            /\ pc' = "slow_round"
            /\ UNCHANGED <<slowOut, fast, fastOut>>
    /\ UNCHANGED args

\* return C[0]
SlowReturn ==
    /\ pc = "slow_return"
    /\ IF ~InRange(slow.C, 0)
       THEN SlowRaise("IndexError")
       ELSE /\ slowOut' = Returned(At(slow.C, 0))
            /\ pc' = "fast_const"
            /\ UNCHANGED <<slow, fast, fastOut>>
    /\ UNCHANGED args

----------------------------------------------------------------------------
\* binomial_tree_fast

FastLocals == [dt |-> Zero, q |-> Zero, disc |-> Zero, C |-> <<>>, i |-> 0]

\* np.arange(N,-1,-1): N, N-1, ..., 0 (empty for N < 0)
ArangeDown(n) == [m \in 1 .. n + 1 |-> n - (m - 1)]

\* np.arange(0, N+1, 1): 0, 1, ..., N (empty for N < 0)
ArangeUp(n) == [m \in 1 .. n + 1 |-> m - 1]

\* FastTerminal with the exponents of d ascending like those of u.
FastTerminalAscending(s0, dd, uu, n) ==
    [m \in 1 .. Len(ArangeUp(n)) |->
        Mul(Mul(s0, Pow(dd, ArangeUp(n)[m])), Pow(uu, ArangeUp(n)[m]))]

\* S0 * d **(np.arange(N,-1,-1)) * u **(np.arange(0, N+1, 1))
FastTerminal(s0, dd, uu, n) ==
    [m \in 1 .. Len(ArangeDown(n)) |->
        Mul(Mul(s0, Pow(dd, ArangeDown(n)[m])), Pow(uu, ArangeUp(n)[m]))]

\* np.maximum(C - K, 0)
FastPayoff(C, KK) == [m \in 1 .. Len(C) |-> Payoff(C[m], KK)]

\* FastSweep updating the first i entries in place instead of building the
\* shorter layer.
FastSweepInPlace(C, i, q, disc) ==
    [m \in 1 .. Len(C) |->
        IF m <= i /\ m < Len(C) THEN Backward(disc, q, C[m + 1], C[m]) ELSE C[m]]

\* disc * ( q * C[1:i+1] + (1-q) * C[0:i] ), for slices of one length
FastSweep(C, i, q, disc) ==
    LET up == Slice(C, 1, i + 1)
        down == Slice(C, 0, i)
    IN  [m \in 1 .. Len(down) |-> Backward(disc, q, up[m], down[m])]

\* The fast call ends with an exception.
FastRaise(e) ==
    /\ fastOut' = Raised(e)
    /\ pc' = "done"
    /\ UNCHANGED <<slow, fast, slowOut>>

\* dt = T/N; q = ...; disc = ...
FastConstants ==
    /\ pc = "fast_const"
    /\ IF N = 0
       THEN FastRaise("ZeroDivisionError")
       ELSE LET dt == Norm(T, N)
            IN  /\ fast' = [fast EXCEPT !.dt = dt,
                                        !.q = RiskNeutral(r, dt, u, d),
                                        !.disc = Discount(r, dt)]
                /\ pc' = "fast_terminal"
                /\ UNCHANGED <<slow, slowOut, fastOut>>
    /\ UNCHANGED args

\* C = S0 * d **(...) * u **(...): the asset prices at maturity
FastPrices ==
    /\ pc = "fast_terminal"
    /\ fast' = [fast EXCEPT !.C = FastTerminal(S0, d, u, N)]
    /\ pc' = "fast_payoff"
    /\ UNCHANGED <<args, slow, slowOut, fastOut>>

\* C = np.maximum(C - K, 0)
FastValues ==
    /\ pc = "fast_payoff"
    /\ fast' = [fast EXCEPT !.C = FastPayoff(fast.C, K), !.i = N]
    /\ pc' = "fast_round"
    /\ UNCHANGED <<args, slow, slowOut, fastOut>>

\* for i in np.arange(N, 0 , -1): C = disc * ( q * C[1:i+1] + (1-q) * C[0:i])
\* (slices of different lengths do not combine: numpy raises ValueError)
FastRound ==
    /\ pc = "fast_round"
    /\ IF fast.i > 0
       THEN IF Len(Slice(fast.C, 1, fast.i + 1)) # Len(Slice(fast.C, 0, fast.i))
            THEN FastRaise("ValueError")
            ELSE /\ fast' = [fast EXCEPT
                       !.C = FastSweep(fast.C, fast.i, fast.q, fast.disc),
                       !.i = fast.i - 1]
                 /\ UNCHANGED <<pc, slow, slowOut, fastOut>>
       ELSE /\ pc' = "fast_return"
            /\ UNCHANGED <<slow, fast, slowOut, fastOut>>
    /\ UNCHANGED args

\* return C[0]
FastReturn ==
    /\ pc = "fast_return"
    /\ IF ~InRange(fast.C, 0)
       THEN FastRaise("IndexError")
       ELSE /\ fastOut' = Returned(At(fast.C, 0))
            /\ pc' = "done"
            /\ UNCHANGED <<slow, fast, slowOut>>
    /\ UNCHANGED args

----------------------------------------------------------------------------
\* The driver: binomial_tree_slow(...) then binomial_tree_fast(...) on the
\* same arguments.

Init ==
    /\ S0 \in S0Values
    /\ K \in KValues
    /\ T \in TValues
    /\ r \in rValues
    /\ N \in NValues
    /\ u \in uValues
    /\ d \in dValues
    /\ opt \in optValues
    /\ pc = "slow_const"
    /\ slow = SlowLocals
    /\ fast = FastLocals
    /\ slowOut = Running
    /\ fastOut = Running

Next ==
    \/ SlowConstants
    \/ SlowInitS
    \/ SlowPriceLoop
    \/ SlowPayoffLoop
    \/ SlowRound
    \/ SlowInner
    \/ SlowReturn
    \/ FastConstants
    \/ FastPrices
    \/ FastValues
    \/ FastRound
    \/ FastReturn

Spec == Init /\ [][Next]_vars

----------------------------------------------------------------------------
\* Vocabulary of the properties

Positive(a) == Less(Zero, a)
NonNegative(a) == Leq(Zero, a)

\* The entry point's input constraints: S0>0, K>0, T>0, N a positive
\* integer, u>1, 0<d<1, any r.
Valid ==
    /\ Positive(S0) /\ Positive(K) /\ T > 0 /\ N >= 1
    /\ Less(One, u) /\ Positive(d) /\ Less(d, One)

\* The inputs on which no step divides by zero; every valid tuple is one.
Finite == N >= 1 /\ d # Zero /\ u # d

\* 0 <= q <= 1
InUnit(q) == Leq(Zero, q) /\ Leq(q, One)

BothReturned == slowOut.kind = "returned" /\ fastOut.kind = "returned"

\* max(x, 0) of a finite x
Floor0(x) == IF Less(x, Zero) THEN Zero ELSE x

\* S0 * u^j * d^(N-j), entry j of the terminal layer in closed form
Closed(j) == Mul(Mul(S0, Pow(u, j)), Pow(d, N - j))

\* S0 * u^j * (1/u)^(N-j), entry j of the lattice with d derived from u
ClosedDerived(j) == Mul(Mul(S0, Pow(u, j)), Pow(Recip(u), N - j))

\* The slow call has filled its price layer S / its value layer C.
SlowPricesBuilt ==
    pc \in {"slow_C_loop", "slow_round", "slow_inner", "slow_return"}
SlowValuesBuilt == pc \in {"slow_round", "slow_inner", "slow_return"}

----------------------------------------------------------------------------
\* C1: on every valid parameter tuple (more generally, whenever no step
\* divides by zero) binomial_tree_slow and binomial_tree_fast both return,
\* and return the same price in exact arithmetic.
C1_SamePrice ==
    (pc = "done" /\ Finite) =>
        /\ BothReturned
        /\ IsFinite(slowOut.val)
        /\ slowOut.val = fastOut.val

\* Both calls have returned a non-zero price of a valid tree of >= 2 steps.
C1_Witness ==
    /\ pc = "done" /\ Valid /\ N >= 2
    /\ BothReturned /\ slowOut.val # Zero /\ slowOut.val = fastOut.val

\* C2 (as claimed): the initial Value Layer follows the option kind, for a
\* put max(K - price, 0) and for a call max(price - K, 0) of the matching
\* terminal price, in both functions.
C2_PayoffFollowsKind ==
    LET Intrinsic(price) ==
            IF opt = "P" THEN Floor0(Sub(K, price)) ELSE Floor0(Sub(price, K))
    IN  Valid =>
          /\ (pc = "slow_round" /\ slow.i = N) =>
                \A j \in 0 .. N : At(slow.C, j) = Intrinsic(At(slow.S, j))
          /\ (pc = "fast_round" /\ fast.i = N) =>
                \A j \in 0 .. N : At(fast.C, j) = Intrinsic(Closed(j))

\* C3 (as claimed): every valid input yields a non-negative price.
C3_PriceNonNegative ==
    (pc = "done" /\ Valid) =>
        /\ BothReturned
        /\ NonNegative(slowOut.val)
        /\ NonNegative(fastOut.val)

\* C3 (amended): every valid input whose risk-neutral probability lies in
\* [0,1] (d <= e^(r*dt) <= u) yields a non-negative price.
C3_PriceNonNegativeInUnit ==
    (pc = "done" /\ Valid /\ InUnit(slow.q) /\ InUnit(fast.q)) =>
        /\ BothReturned
        /\ NonNegative(slowOut.val)
        /\ NonNegative(fastOut.val)

\* A valid call with q in [0,1] has returned a positive price.
C3_Witness ==
    /\ pc = "done" /\ Valid /\ InUnit(slow.q) /\ InUnit(fast.q)
    /\ BothReturned /\ Positive(slowOut.val) /\ Positive(fastOut.val)

\* C4: for N = 1 and a call each function returns the single-period price
\* disc*(q*max(S0*u-K,0) + (1-q)*max(S0*d-K,0)), q and disc being the step
\* constants of that call.
C4_SinglePeriod ==
    LET Single(q, disc) ==
            Mul(disc, Add(Mul(q, Floor0(Sub(Mul(S0, u), K))),
                          Mul(Sub(One, q), Floor0(Sub(Mul(S0, d), K)))))
    IN  (pc = "done" /\ Finite /\ N = 1 /\ opt = "C") =>
            /\ BothReturned
            /\ slowOut.val = Single(slow.q, slow.disc)
            /\ fastOut.val = Single(fast.q, fast.disc)

\* A one-step call whose two terminal payoffs differ has returned.
C4_Witness ==
    /\ pc = "done" /\ Valid /\ N = 1 /\ opt = "C" /\ BothReturned
    /\ Floor0(Sub(Mul(S0, u), K)) # Floor0(Sub(Mul(S0, d), K))
    /\ slowOut.val # Zero

\* C5 (as claimed): in each function the Value Layer has length N+1-k after
\* k backward rounds, and length 1 after N rounds.
C5_LayerShrinks ==
    N >= 1 =>
        /\ pc = "slow_round" => Len(slow.C) = N + 1 - (N - slow.i)
        /\ pc = "slow_return" => Len(slow.C) = 1
        /\ pc = "fast_round" => Len(fast.C) = N + 1 - (N - fast.i)
        /\ pc = "fast_return" => Len(fast.C) = 1

\* C5 (amended): the bulk function's array has length N+1-k after k rounds
\* and length 1 after N rounds, its only value being the returned price.
\* The scalar function's array keeps its N+1 entries to the end; round i
\* writes only positions below i, so what shrinks by one per round is the
\* prefix in use, and the returned price is entry 0.
C5_LiveLayerShrinks ==
    N >= 1 =>
        /\ pc = "fast_round" => Len(fast.C) = N + 1 - (N - fast.i)
        /\ pc = "fast_return" => Len(fast.C) = 1
        /\ (pc = "done" /\ fastOut.kind = "returned") =>
                fast.C = <<fastOut.val>>
        /\ SlowValuesBuilt => Len(slow.C) = N + 1
        /\ pc = "slow_inner" =>
                /\ slow.j <= slow.i
                /\ \A m \in slow.i .. N : At(slow.C, m) = At(slow.old, m)
        /\ slowOut.kind = "returned" => slowOut.val = At(slow.C, 0)

\* The scalar sweep is over and its array still holds more than one entry,
\* while the bulk sweep ends on a one-entry array.
C5_Witness ==
    /\ N >= 2 /\ pc = "done" /\ BothReturned
    /\ Len(slow.C) = N + 1 /\ Len(fast.C) = 1

C7_TerminalLayer ==
    (N >= 1 /\ d # Zero) =>
        /\ SlowPricesBuilt =>
            /\ Len(slow.S) = N + 1
            /\ \A j \in 0 .. N : At(slow.S, j) = Closed(j)
        /\ pc = "fast_payoff" =>
            /\ Len(fast.C) = N + 1
            /\ \A j \in 0 .. N : At(fast.C, j) = Closed(j)
            /\ fast.C = slow.S

\* The bulk function has built a 3-or-more-entry layer of distinct prices.
C7_Witness ==
    /\ pc = "fast_payoff" /\ Valid /\ N >= 2
    /\ At(fast.C, 0) # At(fast.C, 1)
    /\ fast.C = slow.S

\* C8 (as claimed): whatever d is passed, the lattice is the one with d
\* derived as 1/u: entry j of the terminal layer is S0*u^j*(1/u)^(N-j).
C8_DownDerived ==
    Valid =>
        /\ SlowPricesBuilt =>
            \A j \in 0 .. N : At(slow.S, j) = ClosedDerived(j)
        /\ pc = "fast_payoff" =>
            \A j \in 0 .. N : At(fast.C, j) = ClosedDerived(j)

\* C8 (amended): a call uses the d it is passed; when the caller passes
\* d = 1/u, as the notebook does, entry j of the terminal layer is
\* S0*u^j*(1/u)^(N-j).
C8_DownDerivedByCaller ==
    (N >= 1 /\ d = Recip(u)) =>
        /\ SlowPricesBuilt =>
            \A j \in 0 .. N : At(slow.S, j) = ClosedDerived(j)
        /\ pc = "fast_payoff" =>
            \A j \in 0 .. N : At(fast.C, j) = ClosedDerived(j)

\* The bulk function has built the layer of a call with d = 1/u < 1.
C8_Witness ==
    /\ pc = "fast_payoff" /\ Valid /\ N >= 2 /\ d = Recip(u)
    /\ At(fast.C, N) = Mul(S0, Pow(u, N))

\* C9: in round i of the scalar sweep, once positions 0..j-1 are written,
\* each holds disc*(q*old[m+1] + (1-q)*old[m]) for old the layer as round i
\* found it, and every position from j up (those still to be read, and the
\* ones above i) is untouched; the sweep stays within 0..i.
C9_SweepReadsOld ==
    pc = "slow_inner" =>
        /\ 0 <= slow.j /\ slow.j <= slow.i /\ slow.i <= N
        /\ Len(slow.old) = N + 1
        /\ \A m \in 0 .. slow.j - 1 :
              At(slow.C, m) =
                  Mul(slow.disc, Add(Mul(slow.q, At(slow.old, m + 1)),
                                     Mul(Sub(One, slow.q), At(slow.old, m))))
        /\ \A m \in slow.j .. N : At(slow.C, m) = At(slow.old, m)

\* Two positions of a round are written, with values the round changed.
C9_Witness ==
    /\ pc = "slow_inner" /\ Valid /\ slow.j >= 2
    /\ At(slow.C, 0) # At(slow.old, 0)
    /\ At(slow.C, 1) # At(slow.old, 1)
    /\ At(slow.old, 1) # At(slow.old, 2)

\* C10: when 0 <= q <= 1 and disc > 0, every entry of the current Value
\* Layer (positions 0..i of the scalar array, the whole bulk array) is >= 0
\* before and after every backward round, and so is the returned price
\* (d # 0, as for every valid input).
C10_LayerNonNegative ==
    (N >= 1 /\ d # Zero) =>
        /\ (SlowValuesBuilt /\ InUnit(slow.q) /\ Positive(slow.disc)) =>
            \A m \in 0 .. slow.i : NonNegative(At(slow.C, m))
        /\ (slowOut.kind = "returned" /\ InUnit(slow.q) /\ Positive(slow.disc)) =>
            NonNegative(slowOut.val)
        /\ (pc \in {"fast_round", "fast_return", "done"}
                /\ InUnit(fast.q) /\ Positive(fast.disc)) =>
            /\ \A m \in 1 .. Len(fast.C) : NonNegative(fast.C[m])
            /\ fastOut.kind = "returned" => NonNegative(fastOut.val)

\* Between two rounds of a valid call with q in [0,1] both a zero and a
\* positive entry are in use.
C10_Witness ==
    /\ pc = "slow_round" /\ Valid /\ 0 < slow.i /\ slow.i < N
    /\ InUnit(slow.q) /\ Positive(slow.disc)
    /\ At(slow.C, 0) = Zero /\ Positive(At(slow.C, slow.i))

====
